---------------------------- MODULE Spec2Model ----------------------------
(***************************************************************************)
(* Model of the App Mesh gateway listeners (lib/index.ts), TLS             *)
(* certificates (lib/tls-certificate.ts) and gateway routes                *)
(* (lib/gateway-route.ts).                                                 *)
(*                                                                         *)
(* JavaScript values.  An optional value is a sequence of length at most   *)
(* one: <<>> is `undefined', <<v>> is the value v.  An object is a record; *)
(* a property written in an object literal is a field of the record even   *)
(* when its value is `undefined'.  A string that the code only passes      *)
(* around is a TLA+ string; a string the code builds or splits (names and  *)
(* ARN resource paths) is a sequence of tokens, where "/" is the separator *)
(* character and a literal word of a template is one token.                *)
(***************************************************************************)
EXTENDS Integers, Sequences, FiniteSets, TLC

VARIABLES
    listener,     \* the gateway listener object (its fields), or NoObject
    constructed,  \* the listener's fields as they were when the constructor returned
    lastBind,     \* outcome of the latest bind call on the listener
    binds,        \* number of bind calls made on the listener
    route,        \* the gateway-route identity, or NoObject
    grants,       \* arguments grantRead and grantWrite last passed to iam.Grant.addToPrincipal
    imported      \* the identity fromGatewayRouteArn made of the route's ARN, or NoObject

vars == <<listener, constructed, lastBind, binds, route, grants, imported>>

-----------------------------------------------------------------------------
(* Bounds of the model *)

\* bind calls made on one listener
MaxBinds == 2
\* numeric health-check fields (port, thresholds, interval, timeout) a caller sets at once
MaxSetFields == 2
\* tokens in a route, mesh or gateway name
MaxNameLen == 1

-----------------------------------------------------------------------------
(* JavaScript values *)

Undefined == <<>>
Some(v) == <<v>>
NoObject == [type |-> "none"]

\* truthiness of an optional number: undefined and 0 are falsy
TruthyNum(o) == o # Undefined /\ o[1] # 0
\* truthiness of an optional string: undefined and '' are falsy
TruthyStr(o) == o # Undefined /\ o[1] # ""
\* an enum member or an object is truthy whenever it is defined
TruthyObj(o) == o # Undefined

-----------------------------------------------------------------------------
(* shared-interfaces: Protocol, and core: Duration *)

HTTP == "http"
HTTP2 == "http2"
GRPC == "grpc"
TCP == "tcp"
Protocol == {HTTP, HTTP2, GRPC, TCP}

Millis(a) == [amount |-> a, unit |-> "millis"]
Seconds(a) == [amount |-> a, unit |-> "seconds"]
MillisPerSecond == 1000
ToMilliseconds(d) ==
    IF d.unit = "seconds" THEN d.amount * MillisPerSecond ELSE d.amount

-----------------------------------------------------------------------------
(* private/utils: validateHealthChecks *)

MinHealthCheckThreshold == 2
MaxHealthCheckThreshold == 10
MinIntervalMillis == 5000
MinTimeoutMillis == 2000
MinPort == 1

\* TRUE when the rendered policy passes, FALSE when validateHealthChecks throws
ValidateHealthChecks(hc) ==
    /\ hc.healthyThreshold >= MinHealthCheckThreshold
    /\ hc.healthyThreshold <= MaxHealthCheckThreshold
    /\ hc.unhealthyThreshold >= MinHealthCheckThreshold
    /\ hc.unhealthyThreshold <= MaxHealthCheckThreshold
    /\ hc.intervalMillis >= MinIntervalMillis
    /\ hc.timeoutMillis >= MinTimeoutMillis
    /\ hc.port >= MinPort

-----------------------------------------------------------------------------
(* VirtualGatewayListener.renderHealthCheck *)

Ok(v) == [ok |-> TRUE, value |-> v]
Throw(m) == [ok |-> FALSE, error |-> m]

TcpError == "TCP health checks are not permitted for gateway listeners"
GrpcPathError == "The path property cannot be set with Protocol.GRPC"
ValidationError == "validateHealthChecks"

DefaultThreshold == 2
DefaultIntervalSeconds == 5
DefaultTimeoutSeconds == 2

\* the policy object literal of lines 147-157
HealthCheckPolicy(this, hc) ==
    LET protocol == IF TruthyObj(hc.protocol) THEN hc.protocol[1] ELSE this.protocol
    IN  [ healthyThreshold |->
              IF TruthyNum(hc.healthyThreshold) THEN hc.healthyThreshold[1]
              ELSE DefaultThreshold,
          intervalMillis |->
              ToMilliseconds(IF TruthyObj(hc.interval) THEN hc.interval[1]
                             ELSE Seconds(DefaultIntervalSeconds)),
          path |->
              IF TruthyStr(hc.path) THEN hc.path
              ELSE IF protocol = HTTP \/ protocol = HTTP2 THEN Some("/")
              ELSE Undefined,
          port |-> IF TruthyNum(hc.port) THEN hc.port[1] ELSE this.port,
          protocol |-> IF TruthyObj(hc.protocol) THEN hc.protocol[1] ELSE this.protocol,
          timeoutMillis |->
              ToMilliseconds(IF TruthyObj(hc.timeout) THEN hc.timeout[1]
                             ELSE Seconds(DefaultTimeoutSeconds)),
          unhealthyThreshold |->
              IF TruthyNum(hc.unhealthyThreshold) THEN hc.unhealthyThreshold[1]
              ELSE DefaultThreshold ]

RenderHealthCheck(this, hc) ==
    IF hc.protocol = Some(TCP) THEN Throw(TcpError)
    ELSE IF hc.protocol = Some(GRPC) /\ TruthyStr(hc.path) THEN Throw(GrpcPathError)
    ELSE LET healthCheck == HealthCheckPolicy(this, hc)
         IN  IF ValidateHealthChecks(healthCheck) THEN Ok(healthCheck)
             ELSE Throw(ValidationError)

-----------------------------------------------------------------------------
(* tls-certificate.ts *)

\* property read x.certificateArn: an ICertificate has it, a string does not
CertificateArnOf(x) ==
    IF x.type = "ICertificate" THEN Some(x.certificateArn) ELSE Undefined

NewACMTlsCertificate(props) ==
    [type |-> "ACMTlsCertificate", acmCertificate |-> props.acmCertificate]

ACMTlsCertificateBind(this) ==
    [ virtualGatewayListenerTlsCertificate |->
          [acm |-> [certificateArn |-> CertificateArnOf(this.acmCertificate)]],
      virtualNodeListenerTlsCertificate |->
          [acm |-> [certificateArn |-> CertificateArnOf(this.acmCertificate)]] ]

NewFileTlsCertificate(props) ==
    [type |-> "FileTlsCertificate",
     certificateChain |-> props.certificateChain,
     privateKey |-> props.privateKey]

FileTlsCertificateBind(this) ==
    [ virtualGatewayListenerTlsCertificate |->
          [file |-> [certificateChain |-> this.certificateChain,
                     privateKey |-> this.privateKey]],
      virtualNodeListenerTlsCertificate |->
          [file |-> [certificateChain |-> this.certificateChain,
                     privateKey |-> this.privateKey]] ]

\* dynamic dispatch of TlsCertificate.bind
TlsCertificateBind(cert) ==
    IF cert.type = "ACMTlsCertificate" THEN ACMTlsCertificateBind(cert)
    ELSE FileTlsCertificateBind(cert)


-----------------------------------------------------------------------------
(* VirtualGatewayListener.renderTls *)

\* (cert as CfnCertificate).attrArn !== undefined
IsAcmCertificate(cert) == "attrArn" \in DOMAIN cert

\* The configuration object after the assignment of lines 166-170.  The class
\* imported as AcmTlsCertificate is the ACMTlsCertificate of tls-certificate.ts,
\* and it is handed the ARN string where it declares an ICertificate.
TlsAfterRender(tls) ==
    IF IsAcmCertificate(tls.certificate)
    THEN [tls EXCEPT !.certificate =
              NewACMTlsCertificate(
                  [acmCertificate |-> [type |-> "string", value |-> tls.certificate.attrArn]])]
    ELSE tls

\* the record returned by renderTls (lines 172-175)
RenderTls(tls) ==
    [ certificate |-> TlsCertificateBind(TlsAfterRender(tls).certificate),
      mode |-> TlsAfterRender(tls).mode ]

-----------------------------------------------------------------------------
(* HttpGatewayListener, Http2GatewayListener, GrpcGatewayListener *)

DefaultPort == 8080

NewHttpGatewayListener(props) ==
    [ type |-> "HttpGatewayListener",
      port |-> IF TruthyNum(props.port) THEN props.port[1] ELSE DefaultPort,
      healthCheck |-> props.healthCheck,
      protocol |-> HTTP,
      tls |-> props.tls ]

NewHttp2GatewayListener(props) ==
    [NewHttpGatewayListener(props) EXCEPT !.type = "Http2GatewayListener",
                                          !.protocol = HTTP2]

NewGrpcGatewayListener(props) ==
    [ type |-> "GrpcGatewayListener",
      port |-> IF TruthyNum(props.port) THEN props.port[1] ELSE DefaultPort,
      healthCheck |-> props.healthCheck,
      protocol |-> GRPC,
      tls |-> props.tls ]

\* healthCheck: this.healthCheck ? this.renderHealthCheck(this.healthCheck) : undefined
\* (what the expression returns or throws)
HealthCheckProperty(this) ==
    IF TruthyObj(this.healthCheck)
    THEN LET r == RenderHealthCheck(this, this.healthCheck[1])
         IN  IF r.ok THEN Ok(Some(r.value)) ELSE r
    ELSE Ok(Undefined)

\* a listener that writes a null placeholder where no TLS configuration is given
TlsPropertyNullPlaceholder(this) ==
    IF TruthyObj(this.tls) THEN Some(RenderTls(this.tls[1])) ELSE Some("null")

\* tls: this.tls ? this.renderTls(this.tls) : undefined
TlsProperty(this) ==
    IF TruthyObj(this.tls) THEN Some(RenderTls(this.tls[1])) ELSE Undefined

\* the listener object once the tls expression has been evaluated
ListenerAfterTls(this) ==
    IF TruthyObj(this.tls)
    THEN [this EXCEPT !.tls = Some(TlsAfterRender(this.tls[1]))]
    ELSE this

\* The object literal of bind is evaluated in order: the health check first, and
\* a throw there leaves renderTls uncalled.  The result pairs what bind returns
\* or throws with the listener object as the call leaves it.
BindWith(this, portMappingProtocol) ==
    LET hc == HealthCheckProperty(this)
    IN  IF ~hc.ok
        THEN [outcome |-> hc, this |-> this]
        ELSE [ outcome |->
                 Ok([listener |->
                      [ portMapping |-> [port |-> this.port,
                                         protocol |-> portMappingProtocol],
                        healthCheck |-> hc.value,
                        tls |-> TlsProperty(this) ]]),
               this |-> ListenerAfterTls(this) ]

HttpGatewayListenerBind(this) == BindWith(this, this.protocol)

GrpcGatewayListenerBind(this) == BindWith(this, GRPC)

\* dynamic dispatch of VirtualGatewayListener.bind
ListenerBind(this) ==
    IF this.type = "GrpcGatewayListener" THEN GrpcGatewayListenerBind(this)
    ELSE HttpGatewayListenerBind(this)

-----------------------------------------------------------------------------
(* core: Stack.formatArn, Resource.getResourceNameAttribute, *)
(* Resource.getResourceArnAttribute, Lazy *)

Slash == "/"

\* arn:<partition>:<service>:<region>:<account>:<resource>/<resourceName>; the
\* partition, region and account are the stack's and are left out
FormatArn(components) ==
    [ service |-> components.service,
      resource |-> components.resource \o <<Slash>> \o components.resourceName ]

\* the name the framework generates when the caller gives none (node.uniqueId)
UniqueId == <<"uniqueId">>

-----------------------------------------------------------------------------
(* gateway-route-spec: GatewayRouteSpec.bind *)

RouteSpecKinds == {HTTP, HTTP2, GRPC}

\* every variant populates its own field of the route config and no other
GatewayRouteSpecBind(routeSpec) ==
    LET rendered == [action |-> [target |-> [virtualService |-> routeSpec.routeTarget]]]
    IN  [ httpSpecConfig |-> IF routeSpec.type = HTTP THEN Some(rendered) ELSE Undefined,
          http2SpecConfig |-> IF routeSpec.type = HTTP2 THEN Some(rendered) ELSE Undefined,
          grpcSpecConfig |-> IF routeSpec.type = GRPC THEN Some(rendered) ELSE Undefined ]

-----------------------------------------------------------------------------
(* gateway-route.ts *)

\* GatewayRoute.fromGatewayRouteAttributes: the ARN components of lines 148-152
FromAttributesArnComponents(attrs) ==
    [ service |-> "appmesh",
      resource |-> <<"mesh", Slash>> \o attrs.virtualGateway.mesh.meshName
                   \o <<Slash, "virtualGateway", Slash>>
                   \o attrs.virtualGateway.virtualGatewayName
                   \o <<Slash, "gatewayRoute">>,
      resourceName |-> attrs.gatewayRouteName ]

FromGatewayRouteAttributes(attrs) ==
    [ origin |-> "fromGatewayRouteAttributes",
      gatewayRouteName |-> attrs.gatewayRouteName,
      gatewayRouteArn |-> FormatArn(FromAttributesArnComponents(attrs)),
      virtualGateway |-> attrs.virtualGateway ]

-----------------------------------------------------------------------------
(* core: Stack.parseArn, Fn.split, Fn.select *)

\* position of the first separator of a string, 0 when it has none
FirstSlash(str) ==
    IF \E i \in 1..Len(str) : str[i] = Slash
    THEN CHOOSE i \in 1..Len(str) : str[i] = Slash /\ \A j \in 1..(i - 1) : str[j] # Slash
    ELSE 0

\* parseArn(arn).resourceName: what follows the first '/' of the resource part,
\* undefined when the resource part has no '/'
ParseArnResourceName(arn) ==
    IF FirstSlash(arn.resource) = 0 THEN Undefined
    ELSE Some(SubSeq(arn.resource, FirstSlash(arn.resource) + 1, Len(arn.resource)))

\* Fn.split('/', str): the pieces between the separators, empty pieces kept
RECURSIVE FnSplit(_)
FnSplit(str) ==
    IF FirstSlash(str) = 0 THEN <<str>>
    ELSE <<SubSeq(str, 1, FirstSlash(str) - 1)>>
         \o FnSplit(SubSeq(str, FirstSlash(str) + 1, Len(str)))

\* Fn.select(index, array): the element at the zero-based index, undefined past the end
FnSelect(index, array) ==
    IF index + 1 \in DOMAIN array THEN Some(array[index + 1]) ELSE Undefined

-----------------------------------------------------------------------------
(* gateway-route.ts: GatewayRoute.fromGatewayRouteArn *)

GatewayRouteNameIndex == 4

\* a name read one path element too early
GatewayRouteNameAtOwnerKind(gatewayRouteArn) ==
    FnSelect(GatewayRouteNameIndex - 1, FnSplit(ParseArnResourceName(gatewayRouteArn)[1]))

\* cdk.Fn.select(4, cdk.Fn.split('/', parseArn(gatewayRouteArn).resourceName!)):
\* the name, or undefined when the resource name has fewer than five elements
GatewayRouteNameOfArn(gatewayRouteArn) ==
    FnSelect(GatewayRouteNameIndex, FnSplit(ParseArnResourceName(gatewayRouteArn)[1]))

\* VirtualGateway.fromVirtualGatewayArn(this, 'virtualGateway', gatewayRouteArn)
FromVirtualGatewayArn(arn) ==
    [origin |-> "fromVirtualGatewayArn", virtualGatewayArn |-> arn]

FromGatewayRouteArn(gatewayRouteArn) ==
    [ origin |-> "fromGatewayRouteArn",
      gatewayRouteArn |-> gatewayRouteArn,
      gatewayRouteName |-> GatewayRouteNameOfArn(gatewayRouteArn),
      virtualGateway |-> FromVirtualGatewayArn(gatewayRouteArn) ]

\* props.gatewayRouteName || Lazy(uniqueId): undefined and '' are falsy
PhysicalName(props) ==
    IF props.gatewayRouteName # Undefined /\ props.gatewayRouteName[1] # <<>>
    THEN props.gatewayRouteName[1]
    ELSE UniqueId

\* a spec property whose http2Route reads the HTTP field of the route config
SpecPropertyHttp2FromHttp(routeSpecConfig) ==
    [ httpRoute |-> routeSpecConfig.httpSpecConfig,
      http2Route |-> routeSpecConfig.httpSpecConfig,
      grpcRoute |-> routeSpecConfig.grpcSpecConfig ]

\* the spec property handed to CfnGatewayRoute (lines 183-187)
GatewayRouteSpecProperty(routeSpecConfig) ==
    [ httpRoute |-> routeSpecConfig.httpSpecConfig,
      http2Route |-> routeSpecConfig.http2SpecConfig,
      grpcRoute |-> routeSpecConfig.grpcSpecConfig ]

\* the ARN components the constructor declares (lines 192-196)
ConstructorArnComponents(props) ==
    [ service |-> "appmesh",
      resource |-> <<"mesh", Slash>> \o props.virtualGateway.mesh.meshName
                   \o <<Slash, "virtualRouter", Slash>>
                   \o props.virtualGateway.virtualGatewayName
                   \o <<Slash, "gatewayRoute">>,
      resourceName |-> PhysicalName(props) ]

\* gatewayRouteName and gatewayRouteArn are what getResourceNameAttribute and
\* getResourceArnAttribute resolve to from the physical name and the declared
\* ARN components
NewGatewayRoute(props) ==
    [ origin |-> "constructor",
      virtualGateway |-> props.virtualGateway,
      routeSpecConfig |-> GatewayRouteSpecBind(props.routeSpec),
      resource |->
          [ gatewayRouteName |-> PhysicalName(props),
            meshName |-> props.virtualGateway.mesh.meshName,
            spec |-> GatewayRouteSpecProperty(GatewayRouteSpecBind(props.routeSpec)),
            virtualGatewayName |-> props.virtualGateway.virtualGatewayName ],
      gatewayRouteName |-> PhysicalName(props),
      gatewayRouteArn |-> FormatArn(ConstructorArnComponents(props)) ]

GrantReadActions ==
    <<"appmesh:DescribeGatewayRoute", "appmesh:ListGatewayRoute">>

GrantWriteActions ==
    <<"appmesh:CreateGatewayRoute", "appmesh:UpdateGatewayRoute",
      "appmesh:DeleteGatewayRoute", "appmesh:TagResource", "appmesh:UntagResource">>

\* GatewayRouteBase.grant: the argument of iam.Grant.addToPrincipal
Grant(this, grantee, actions) ==
    [ grantee |-> grantee,
      actions |-> actions,
      resourceArns |-> <<this.gatewayRouteArn>> ]

GatewayRouteGrantRead(this, identity) == Grant(this, identity, GrantReadActions)

\* a write grant that also lists, as a copied action line would make it
GrantWriteAlsoLists(this, identity) ==
    Grant(this, identity, GrantWriteActions \o <<"appmesh:ListGatewayRoute">>)

GatewayRouteGrantWrite(this, identity) == Grant(this, identity, GrantWriteActions)

-----------------------------------------------------------------------------
(* Inputs a caller can supply *)

CertArns == {"arn:cert-a", "arn:cert-b"}
TlsModes == {"STRICT", "PERMISSIVE", "DISABLED"}

Certificates ==
    {[type |-> "CfnCertificate", attrArn |-> a] : a \in CertArns}
    \cup {NewACMTlsCertificate(
              [acmCertificate |-> [type |-> "ICertificate", certificateArn |-> a]])
          : a \in CertArns}
    \cup {NewFileTlsCertificate([certificateChain |-> "chain.pem", privateKey |-> "key.pem"])}

TlsConfigs == [certificate : Certificates, mode : TlsModes]

Optional(S) == {Undefined} \cup {Some(v) : v \in S}

PortInputs == {0, 8443}
ThresholdInputs == {0, 1, 3}
IntervalInputs == {Millis(0), Seconds(10)}
TimeoutInputs == {Millis(0), Seconds(3)}
PathInputs == {"", "/ping"}

Count(b) == IF b THEN 1 ELSE 0

HealthCheckInputs ==
    { hc \in [ protocol : Optional(Protocol),
               path : Optional(PathInputs),
               port : Optional(PortInputs),
               healthyThreshold : Optional(ThresholdInputs),
               unhealthyThreshold : Optional(ThresholdInputs),
               interval : Optional(IntervalInputs),
               timeout : Optional(TimeoutInputs) ] :
        Count(hc.port # Undefined) + Count(hc.healthyThreshold # Undefined)
          + Count(hc.unhealthyThreshold # Undefined) + Count(hc.interval # Undefined)
          + Count(hc.timeout # Undefined) <= MaxSetFields }

ListenerProps ==
    [ port : Optional({0, 9090}),
      healthCheck : Optional(HealthCheckInputs),
      tls : Optional(TlsConfigs) ]

NameTokens == {"a", "b", Slash}

\* the strings of at most MaxNameLen tokens, the empty string among them
Names == UNION {[1..n -> NameTokens] : n \in 0..MaxNameLen}

VirtualGateways ==
    {[virtualGatewayName |-> g, mesh |-> [meshName |-> m]] : g \in Names, m \in Names}

RouteSpecs == [type : RouteSpecKinds, routeTarget : {"service-a", "service-b"}]

GatewayRouteProps ==
    [ gatewayRouteName : Optional(Names),
      routeSpec : RouteSpecs,
      virtualGateway : VirtualGateways ]

GatewayRouteAttributes == [gatewayRouteName : Names, virtualGateway : VirtualGateways]

Grantees == {"role-a", "role-b"}

-----------------------------------------------------------------------------
(* The state machine *)

NoBind == [status |-> "none"]
NoGrants == [grantRead |-> Undefined, grantWrite |-> Undefined]

Init ==
    /\ listener = NoObject
    /\ constructed = NoObject
    /\ lastBind = NoBind
    /\ binds = 0
    /\ route = NoObject
    /\ grants = NoGrants
    /\ imported = NoObject

Fresh == listener = NoObject /\ route = NoObject

\* VirtualGatewayListener.httpGatewayListener(props)
HttpGatewayListenerFactory ==
    /\ Fresh
    /\ \E props \in ListenerProps :
          /\ listener' = NewHttpGatewayListener(props)
          /\ constructed' = NewHttpGatewayListener(props)
    /\ UNCHANGED <<lastBind, binds, route, grants, imported>>

\* VirtualGatewayListener.http2GatewayListener(props)
Http2GatewayListenerFactory ==
    /\ Fresh
    /\ \E props \in ListenerProps :
          /\ listener' = NewHttp2GatewayListener(props)
          /\ constructed' = NewHttp2GatewayListener(props)
    /\ UNCHANGED <<lastBind, binds, route, grants, imported>>

\* VirtualGatewayListener.grpcGatewayListener(props)
GrpcGatewayListenerFactory ==
    /\ Fresh
    /\ \E props \in ListenerProps :
          /\ listener' = NewGrpcGatewayListener(props)
          /\ constructed' = NewGrpcGatewayListener(props)
    /\ UNCHANGED <<lastBind, binds, route, grants, imported>>

\* listener.bind(scope)
Bind ==
    /\ listener # NoObject
    /\ binds < MaxBinds
    /\ LET r == ListenerBind(listener)
       IN  /\ listener' = r.this
           /\ lastBind' = IF r.outcome.ok
                          THEN [status |-> "ok", config |-> r.outcome.value]
                          ELSE [status |-> "error", error |-> r.outcome.error]
    /\ binds' = binds + 1
    /\ UNCHANGED <<constructed, route, grants, imported>>

\* new GatewayRoute(scope, id, props)
GatewayRouteConstructor ==
    /\ Fresh
    /\ \E props \in GatewayRouteProps : route' = NewGatewayRoute(props)
    /\ UNCHANGED <<listener, constructed, lastBind, binds, grants, imported>>

\* GatewayRoute.fromGatewayRouteAttributes(scope, id, attrs)
FromGatewayRouteAttributesCall ==
    /\ Fresh
    /\ \E attrs \in GatewayRouteAttributes : route' = FromGatewayRouteAttributes(attrs)
    /\ UNCHANGED <<listener, constructed, lastBind, binds, grants, imported>>

\* route.grantRead(identity)
GrantRead ==
    /\ route # NoObject
    /\ \E identity \in Grantees :
          grants' = [grants EXCEPT !.grantRead = Some(GatewayRouteGrantRead(route, identity))]
    /\ UNCHANGED <<listener, constructed, lastBind, binds, route, imported>>

\* route.grantWrite(identity)
GrantWrite ==
    /\ route # NoObject
    /\ \E identity \in Grantees :
          grants' = [grants EXCEPT !.grantWrite = Some(GatewayRouteGrantWrite(route, identity))]
    /\ UNCHANGED <<listener, constructed, lastBind, binds, route, imported>>

\* GatewayRoute.fromGatewayRouteArn(scope, id, route.gatewayRouteArn)
FromGatewayRouteArnCall ==
    /\ route # NoObject
    /\ imported' = FromGatewayRouteArn(route.gatewayRouteArn)
    /\ UNCHANGED <<listener, constructed, lastBind, binds, route, grants>>

Next ==
    \/ HttpGatewayListenerFactory
    \/ Http2GatewayListenerFactory
    \/ GrpcGatewayListenerFactory
    \/ Bind
    \/ GatewayRouteConstructor
    \/ FromGatewayRouteAttributesCall
    \/ GrantRead
    \/ GrantWrite
    \/ FromGatewayRouteArnCall

Spec == Init /\ [][Next]_vars

-----------------------------------------------------------------------------
(* Properties *)

BoundOk == lastBind.status = "ok"
Rendered == lastBind.config.listener
\* the health-check input the caller supplied, when there is one
HealthCheckInput == constructed.healthCheck[1]
HealthCheckSupplied == listener # NoObject /\ constructed.healthCheck # Undefined
TlsSupplied == listener # NoObject /\ constructed.tls # Undefined

ConfigurationErrors == {TcpError, GrpcPathError}

\* C1: every health-check record that bind returns has no path when its
\* protocol is GRPC, whether the protocol was supplied or came from the listener.
C1_GrpcRecordHasNoPath ==
    (BoundOk /\ Rendered.healthCheck # Undefined
        /\ Rendered.healthCheck[1].protocol = GRPC)
    => Rendered.healthCheck[1].path = Undefined

\* C2: once bind has been called on a listener whose health-check input has
\* protocol TCP, or protocol GRPC together with a path, the call has failed with
\* a configuration error and returned no listener record.
C2_TcpOrGrpcPathFails ==
    (binds >= 1 /\ HealthCheckSupplied
        /\ \/ HealthCheckInput.protocol = Some(TCP)
           \/ HealthCheckInput.protocol = Some(GRPC) /\ HealthCheckInput.path # Undefined)
    => (lastBind.status = "error" /\ lastBind.error \in ConfigurationErrors)

\* the full certificate-reference object exposing the ARN a
FullCertificate(a) ==
    NewACMTlsCertificate([acmCertificate |-> [type |-> "ICertificate", certificateArn |-> a]])

\* C3: a TLS configuration bound with the raw-ARN representation (attrArn = A)
\* renders the same certificate as the configuration bound with the full
\* certificate-reference object exposing certificateArn = A.
C3_RawArnRendersLikeReference ==
    (BoundOk /\ TlsSupplied /\ IsAcmCertificate(constructed.tls[1].certificate))
    => Rendered.tls[1].certificate
         = RenderTls([certificate |-> FullCertificate(constructed.tls[1].certificate.attrArn),
                      mode |-> constructed.tls[1].mode]).certificate

\* the reference defaulting of a health-check input: a field is the input's
\* when the input gives it, and the default otherwise
Given(o, default) == IF o # Undefined THEN o[1] ELSE default

ReferenceHealthCheck(this, hc) ==
    LET protocol == Given(hc.protocol, this.protocol)
    IN  [ protocol |-> protocol,
          port |-> Given(hc.port, this.port),
          path |-> IF hc.path # Undefined THEN hc.path
                   ELSE IF protocol \in {HTTP, HTTP2} THEN Some("/")
                   ELSE Undefined,
          healthyThreshold |-> Given(hc.healthyThreshold, 2),
          unhealthyThreshold |-> Given(hc.unhealthyThreshold, 2),
          intervalMillis |-> IF hc.interval # Undefined
                             THEN ToMilliseconds(hc.interval[1]) ELSE 5000,
          timeoutMillis |-> IF hc.timeout # Undefined
                            THEN ToMilliseconds(hc.timeout[1]) ELSE 2000 ]

\* C4: the health-check record of an accepted input equals the reference
\* defaulting of the input against the listener's protocol and port.
C4_RecordIsReferenceDefaulting ==
    (BoundOk /\ HealthCheckSupplied)
    => Rendered.healthCheck[1] = ReferenceHealthCheck(constructed, HealthCheckInput)

\* C5: after bind has been called once on a listener, every further bind call
\* is rejected and produces no listener record.
C5_RebindRejected == binds >= 2 => lastBind.status = "error"

\* the resource path mesh/{meshName}/{ownerKind}/{gatewayName}/gatewayRoute/{name}
ResourcePath(meshName, ownerKind, gatewayName, name) ==
    <<"mesh", Slash>> \o meshName \o <<Slash, ownerKind, Slash>> \o gatewayName
        \o <<Slash, "gatewayRoute", Slash>> \o name

\* C6: an identity imported by fromGatewayRouteAttributes keeps the given name
\* and has the ARN resource path
\* mesh/{meshName}/virtualRouter/{gatewayName}/gatewayRoute/{name}, the template
\* the constructor declares.
C6_AttributesArnUsesDeclaredTemplate ==
    (route # NoObject /\ route.origin = "fromGatewayRouteAttributes")
    => /\ route.gatewayRouteArn.resource
            = ResourcePath(route.virtualGateway.mesh.meshName, "virtualRouter",
                           route.virtualGateway.virtualGatewayName, route.gatewayRouteName)
       /\ route.gatewayRouteArn.service = "appmesh"

\* C7 as stated: with no health check supplied the returned record has no
\* healthCheck field, and with no TLS configuration supplied it has no tls field.
C7_AbsentFieldsOmitted ==
    BoundOk
    => /\ ~HealthCheckSupplied => "healthCheck" \notin DOMAIN Rendered
       /\ ~TlsSupplied => "tls" \notin DOMAIN Rendered

\* C7: with no health check supplied the healthCheck field of the returned
\* record holds undefined, and with no TLS configuration supplied the tls field
\* holds undefined; a supplied one is rendered.
C7_AbsentFieldsUndefined ==
    BoundOk
    => /\ {"healthCheck", "tls", "portMapping"} = DOMAIN Rendered
       /\ ~HealthCheckSupplied <=> Rendered.healthCheck = Undefined
       /\ ~TlsSupplied <=> Rendered.tls = Undefined

C7_Witness == BoundOk /\ ~HealthCheckSupplied /\ ~TlsSupplied

Range(f) == {f[i] : i \in DOMAIN f}

GatewayRouteActions ==
    { "appmesh:DescribeGatewayRoute", "appmesh:ListGatewayRoute",
      "appmesh:CreateGatewayRoute", "appmesh:UpdateGatewayRoute",
      "appmesh:DeleteGatewayRoute", "appmesh:TagResource", "appmesh:UntagResource" }

\* C8: grantRead passes the Describe and List actions, grantWrite the Create,
\* Update, Delete, TagResource and UntagResource actions; the two sets are
\* disjoint, their union is the gateway-route action list, and each grant names
\* exactly one resource ARN, the identity's gatewayRouteArn.
C8_GrantsPartitionActions ==
    /\ grants.grantRead # Undefined
         => /\ Range(grants.grantRead[1].actions)
                 = {"appmesh:DescribeGatewayRoute", "appmesh:ListGatewayRoute"}
            /\ grants.grantRead[1].resourceArns = <<route.gatewayRouteArn>>
    /\ grants.grantWrite # Undefined
         => /\ Range(grants.grantWrite[1].actions)
                 = GatewayRouteActions
                     \ {"appmesh:DescribeGatewayRoute", "appmesh:ListGatewayRoute"}
            /\ grants.grantWrite[1].resourceArns = <<route.gatewayRouteArn>>
    /\ (grants.grantRead # Undefined /\ grants.grantWrite # Undefined)
         => /\ Range(grants.grantRead[1].actions)
                 \cap Range(grants.grantWrite[1].actions) = {}
            /\ Range(grants.grantRead[1].actions)
                 \cup Range(grants.grantWrite[1].actions) = GatewayRouteActions

C8_Witness ==
    /\ grants.grantRead # Undefined
    /\ grants.grantWrite # Undefined
    /\ route.origin = "fromGatewayRouteAttributes"

\* C9: the spec of the route resource the constructor emits carries the three
\* fields of the bound route config unchanged, and exactly one of httpRoute,
\* http2Route, grpcRoute is populated.
C9_ExactlyOneRoutePassedThrough ==
    (route # NoObject /\ route.origin = "constructor")
    => /\ route.resource.spec.httpRoute = route.routeSpecConfig.httpSpecConfig
       /\ route.resource.spec.http2Route = route.routeSpecConfig.http2SpecConfig
       /\ route.resource.spec.grpcRoute = route.routeSpecConfig.grpcSpecConfig
       /\ Cardinality({f \in {"httpRoute", "http2Route", "grpcRoute"} :
                         route.resource.spec[f] # Undefined}) = 1

C9_Witness ==
    /\ route # NoObject
    /\ route.origin = "constructor"
    /\ route.resource.spec.http2Route # Undefined

\* C10: after any sequence of bind calls the listener's port, protocol,
\* health-check input and TLS configuration are the values it was constructed with.
C10_BindLeavesConfigUnchanged == listener = constructed

\* a string without the separator character
NoSlash(str) == \A i \in DOMAIN str : str[i] # Slash

\* the identity in route came from fromGatewayRouteAttributes with a route, mesh
\* and gateway name free of '/', and fromGatewayRouteArn has imported its ARN
AttributesArnImported ==
    /\ imported # NoObject
    /\ route.origin = "fromGatewayRouteAttributes"
    /\ NoSlash(route.gatewayRouteName)
    /\ NoSlash(route.virtualGateway.mesh.meshName)
    /\ NoSlash(route.virtualGateway.virtualGatewayName)

\* C11: importing through fromGatewayRouteArn the ARN that
\* fromGatewayRouteAttributes produced from names without '/' yields the same
\* gatewayRouteArn and the same gatewayRouteName, the element at index 4 of the
\* ARN's resource name split on '/'.
C11_ArnImportKeepsNameAndArn ==
    AttributesArnImported
    => /\ imported.gatewayRouteArn = route.gatewayRouteArn
       /\ imported.gatewayRouteName = Some(route.gatewayRouteName)
       /\ imported.gatewayRouteName
            = FnSelect(4, FnSplit(ParseArnResourceName(route.gatewayRouteArn)[1]))

C11_Witness ==
    /\ AttributesArnImported
    /\ route.gatewayRouteName # <<>>
    /\ route.virtualGateway.mesh.meshName # <<>>
    /\ route.virtualGateway.virtualGatewayName # <<>>

=============================================================================
